---- MODULE Spec2Model ----
(***************************************************************************)
(* Model of the object pool of src/src/lib.rs: a fixed-size vector of      *)
(* entries, each either Data (a payload) or Empty (a node of the free      *)
(* list, with prev/next indexes), and first_free, the head of that list.   *)
(*                                                                         *)
(* Option<usize> is modelled as an integer: None is -1, Some(i) is i.      *)
(* A panic ends the run: the message is kept in `panic`, together with the *)
(* fields as the panicking call left them.                                 *)
(***************************************************************************)
EXTENDS Integers, Sequences, FiniteSets, TLC

\* ---- bounds ----
MaxSize == 4          \* largest size given to Pool::new
MaxOver == 1          \* how far past MaxSize an index argument may be

\* ---- Option<usize> ----
None == -1

\* payloads: set and free never look inside FilledEntry.inner, so two byte
\* vectors that differ are enough to tell a replaced payload from a kept one
Payloads == { <<>>, <<0>> }
IdxInputs == 0..(MaxSize + MaxOver)
Sizes == 0..MaxSize

NoPanic == "none"
PrevMsg == "Prev should always be valid."
NextMsg == "Next should always be valid."
NeverMsg == "Should never happen"
Hang == "does not return"

\* op and pre record the last call and the pool before it; phase and filled
\* record the shape of the whole call sequence since Pool::new:
\*   phase = "fills"  only in-range set calls so far (filled: their indexes)
\*   phase = "frees"  in-range set calls, then in-range free calls
\*   phase = "mixed"  anything else
VARIABLES entries, first_free, panic, op, pre, phase, filled
vars == <<entries, first_free, panic, op, pre, phase, filled>>

\* ---- entries ----
EmptyEntry_new(prev, next) == [tag |-> "Empty", prev |-> prev, next |-> next, inner |-> <<>>]
FilledEntry(data) == [tag |-> "Data", prev |-> None, next |-> None, inner |-> data]
IsEmpty(e) == e.tag = "Empty"
IsData(e) == e.tag = "Data"

\* a pool value: the two fields of struct Pool
MkPool(es, ff) == [entries |-> es, first_free |-> ff]
len(es) == Cardinality(DOMAIN es)
\* Vec::get: Some(entry) exactly when the index is in range
InVec(es, i) == i \in DOMAIN es

\* ---- Pool::new ----
\* every entry's next is its own index instead of the index after it
Pool_new_SelfNext(size) ==
  MkPool([idx \in 0..(size - 1) |->
            IF idx = 0 THEN EmptyEntry_new(None, idx)
            ELSE IF idx = size - 1 THEN EmptyEntry_new(idx - 1, None)
            ELSE EmptyEntry_new(idx - 1, idx)],
         0)
Pool_new_NoLinks(size) ==
  MkPool([idx \in 0..(size - 1) |-> EmptyEntry_new(None, None)], 0)
Pool_new(size) ==
  MkPool([idx \in 0..(size - 1) |->
            IF idx = 0 THEN EmptyEntry_new(None, idx + 1)
            ELSE IF idx = size - 1 THEN EmptyEntry_new(idx - 1, None)
            ELSE EmptyEntry_new(idx - 1, idx + 1)],
         0)

\* ---- Pool::first_free, Pool::entry ----
Pool_first_free(p) == p.first_free
NoEntry == [tag |-> "None", prev |-> None, next |-> None, inner |-> <<>>]
Pool_entry(p, idx) == IF InVec(p.entries, idx) THEN p.entries[idx] ELSE NoEntry

\* result of a call: the pool it leaves, what it returns, and how it ends
Result(p, ret, pn) == [pool |-> p, ret |-> ret, panic |-> pn]

\* ---- the early return of set and free on an index past the end ----
Ignore_ReturnsIdx(p, idx) == Result(p, idx, NoPanic)
Ignore(p, idx) == Result(p, None, NoPanic)

\* ---- Pool::set ----
\* the PoolEntry::Data arm: the payload is replaced in place
OverwriteData_NextSlot(p, idx, data) ==
  Result(MkPool([p.entries EXCEPT ![(idx + 1) % len(p.entries)] = FilledEntry(data)],
                p.first_free), idx, NoPanic)
OverwriteData_KeepsOld(p, idx, data) == Result(p, idx, NoPanic)
OverwriteData(p, idx, data) ==
  Result(MkPool([p.entries EXCEPT ![idx] = FilledEntry(data)], p.first_free), idx, NoPanic)

Pool_set(p, idx, data) ==
  IF idx >= len(p.entries) THEN Ignore(p, idx)
  ELSE IF IsData(p.entries[idx]) THEN OverwriteData(p, idx, data)
  ELSE
    LET prev == p.entries[idx].prev
        next == p.entries[idx].next
        ff1  == IF idx = p.first_free THEN next ELSE p.first_free
    IN IF prev # None /\ ~InVec(p.entries, prev)
       THEN Result(MkPool(p.entries, ff1), None, PrevMsg)
       ELSE
         LET e1 == IF prev # None /\ IsEmpty(p.entries[prev])
                   THEN [p.entries EXCEPT ![prev].next = next]
                   ELSE p.entries
         IN IF next # None /\ ~InVec(e1, next)
            THEN Result(MkPool(e1, ff1), None, NextMsg)
            ELSE
              LET e2 == IF next # None /\ IsEmpty(e1[next])
                        THEN [e1 EXCEPT ![next].prev = prev]
                        ELSE e1
              IN Result(MkPool([e2 EXCEPT ![idx] = FilledEntry(data)], ff1), idx, NoPanic)

\* ---- Pool::insert_on_free_list ----
\* the while-let loop of lines 130-142: the index it stops at, or None when
\* it never stops (fuel counts the iterations still allowed; a deterministic
\* walk over len(es) nodes that takes more than len(es) steps repeats a node)
WalkToInsert_NoAdvance(es, current_idx, insert_index, fuel) == current_idx
RECURSIVE WalkToInsert(_, _, _, _)
WalkToInsert(es, current_idx, insert_index, fuel) ==
  IF InVec(es, current_idx) /\ IsEmpty(es[current_idx])
  THEN LET n_idx == es[current_idx].next
       IN IF n_idx = None THEN current_idx
          ELSE IF n_idx > insert_index THEN current_idx
          ELSE IF fuel = 0 THEN None
          ELSE WalkToInsert(es, n_idx, insert_index, fuel - 1)
  ELSE current_idx

insert_on_free_list(p, insert_index) ==
  IF p.first_free = None
  THEN Result(MkPool([p.entries EXCEPT ![insert_index] = EmptyEntry_new(None, None)],
                     insert_index), None, NoPanic)
  ELSE LET first_free_index == p.first_free IN
    IF insert_index = first_free_index THEN Result(p, None, NoPanic)
    ELSE IF insert_index < first_free_index
    THEN LET e1 == IF InVec(p.entries, first_free_index) /\ IsEmpty(p.entries[first_free_index])
                   THEN [p.entries EXCEPT ![first_free_index].prev = insert_index]
                   ELSE p.entries
         IN Result(MkPool([e1 EXCEPT ![insert_index] = EmptyEntry_new(None, first_free_index)],
                          insert_index), None, NoPanic)
    ELSE LET current_idx == WalkToInsert(p.entries, first_free_index, insert_index, len(p.entries))
         IN IF current_idx = None THEN Result(p, None, Hang)
            ELSE IF InVec(p.entries, current_idx) /\ IsEmpty(p.entries[current_idx])
            THEN LET former_next == p.entries[current_idx].next
                     e1 == [p.entries EXCEPT ![current_idx].next = insert_index]
                 IN Result(MkPool([e1 EXCEPT ![insert_index] =
                                       EmptyEntry_new(current_idx, former_next)],
                                  p.first_free), None, NoPanic)
            ELSE Result(p, None, NeverMsg)

\* ---- Pool::free ----
\* the entry is marked Empty but never linked into the free list
Pool_free_NoInsert(p, idx) ==
  IF idx >= len(p.entries) THEN Ignore(p, idx)
  ELSE IF IsEmpty(p.entries[idx]) THEN Result(p, idx, NoPanic)
  ELSE Result(MkPool([p.entries EXCEPT ![idx] = EmptyEntry_new(None, None)], p.first_free),
              idx, NoPanic)
Pool_free(p, idx) ==
  IF idx >= len(p.entries) THEN Ignore(p, idx)
  ELSE IF IsEmpty(p.entries[idx]) THEN Result(p, idx, NoPanic)
  ELSE LET r == insert_on_free_list(p, idx)
       IN IF r.panic = NoPanic THEN Result(r.pool, idx, NoPanic) ELSE r

\* ---- Pool::free_indexes and PoolFreeIterator::next ----
\* one call of next(): the item it yields (None at the end) and the
\* iterator's current_index afterwards
Iterator_next(p, current_index) ==
  IF current_index = None THEN [item |-> None, current_index |-> None]
  ELSE IF InVec(p.entries, current_index) /\ IsEmpty(p.entries[current_index])
  THEN IF current_index = p.entries[current_index].next
       THEN [item |-> None, current_index |-> current_index]
       ELSE [item |-> current_index, current_index |-> p.entries[current_index].next]
  ELSE [item |-> None, current_index |-> current_index]

\* the items of the iterator, collected until next() yields None or the fuel
\* is used up
RECURSIVE Collect(_, _, _)
Collect(p, current_index, fuel) ==
  LET s == Iterator_next(p, current_index)
  IN IF s.item = None \/ fuel = 0 THEN <<>>
     ELSE <<s.item>> \o Collect(p, s.current_index, fuel - 1)

\* free_indexes().collect(); more than len items means the iterator never ends
free_indexes(p) == Collect(p, p.first_free, len(p.entries) + 1)
EnumTerminates(p) == Len(free_indexes(p)) <= len(p.entries)

\* the iterator's current_index when next() first yields None (None when the
\* fuel is used up first)
RECURSIVE IteratorEnd(_, _, _)
IteratorEnd(p, current_index, fuel) ==
  LET s == Iterator_next(p, current_index)
  IN IF s.item = None THEN [stopped |-> TRUE, current_index |-> s.current_index]
     ELSE IF fuel = 0 THEN [stopped |-> FALSE, current_index |-> None]
     ELSE IteratorEnd(p, s.current_index, fuel - 1)
\* the iterator ended through the branch of lines 184-187 ("Stuck in a loop")
LoopGuardTaken(p) ==
  LET e == IteratorEnd(p, p.first_free, len(p.entries) + 1)
  IN /\ e.stopped
     /\ InVec(p.entries, e.current_index)
     /\ IsEmpty(p.entries[e.current_index])

\* ---- state ----
pool == MkPool(entries, first_free)
NoOp == [name |-> "new", idx |-> None, data |-> <<>>, ret |-> None, view |-> NoEntry, seq |-> <<>>]

Init ==
  \E size \in Sizes :
    /\ entries = Pool_new(size).entries
    /\ first_free = Pool_new(size).first_free
    /\ panic = NoPanic
    /\ op = NoOp
    /\ pre = Pool_new(size)
    /\ phase = "fills"
    /\ filled = {}

Apply(r, name, idx, data) ==
  /\ entries' = r.pool.entries
  /\ first_free' = r.pool.first_free
  /\ panic' = r.panic
  /\ pre' = pool
  /\ op' = [name |-> name, idx |-> idx, data |-> data, ret |-> r.ret,
            view |-> NoEntry, seq |-> <<>>]

CallSet(idx, data) ==
  /\ panic = NoPanic
  /\ Apply(Pool_set(pool, idx, data), "set", idx, data)
  /\ phase' = IF phase = "fills" /\ InVec(entries, idx) THEN "fills" ELSE "mixed"
  /\ filled' = IF phase' = "fills" THEN filled \cup {idx} ELSE {}

CallFree(idx) ==
  /\ panic = NoPanic
  /\ Apply(Pool_free(pool, idx), "free", idx, <<>>)
  /\ phase' = IF phase \in {"fills", "frees"} /\ InVec(entries, idx) THEN "frees" ELSE "mixed"
  /\ filled' = {}

CallFirstFree ==
  /\ panic = NoPanic
  /\ pre' = pool
  /\ op' = [NoOp EXCEPT !.name = "first_free", !.ret = Pool_first_free(pool)]
  /\ UNCHANGED <<entries, first_free, panic, phase, filled>>

CallEntry(idx) ==
  /\ panic = NoPanic
  /\ pre' = pool
  /\ op' = [NoOp EXCEPT !.name = "entry", !.idx = idx, !.view = Pool_entry(pool, idx)]
  /\ UNCHANGED <<entries, first_free, panic, phase, filled>>

CallFreeIndexes ==
  /\ panic = NoPanic
  /\ pre' = pool
  /\ op' = [NoOp EXCEPT !.name = "free_indexes", !.seq = free_indexes(pool)]
  /\ panic' = IF EnumTerminates(pool) THEN NoPanic ELSE Hang
  /\ UNCHANGED <<entries, first_free, phase, filled>>

Next ==
  \/ \E idx \in IdxInputs, data \in Payloads : CallSet(idx, data)
  \/ \E idx \in IdxInputs : CallFree(idx)
  \/ CallFirstFree
  \/ \E idx \in IdxInputs : CallEntry(idx)
  \/ CallFreeIndexes

Spec == Init /\ [][Next]_vars

\* ---- derived notions ----
FreeSet(p) == { i \in DOMAIN p.entries : IsEmpty(p.entries[i]) }
Range(s) == { s[k] : k \in 1..Len(s) }
Ascending(s) == \A k \in 1..(Len(s) - 1) : s[k] < s[k + 1]
Running == panic = NoPanic

Min(S) == CHOOSE x \in S : \A y \in S : x <= y
InRangeIdx(p) == DOMAIN p.entries
\* the last call was name(idx, ...) with idx inside the vector
Called(name) == op.name = name
CalledInRange(name) == op.name = name /\ op.idx \in DOMAIN pre.entries
CalledPastEnd(name) == op.name = name /\ op.idx >= len(pre.entries)
\* s holds idx exactly once, after every smaller and before every larger item
SortedPosition(s, idx) ==
  \E k \in 1..Len(s) :
    /\ s[k] = idx
    /\ \A j \in 1..Len(s) : (j # k => s[j] # idx)
    /\ \A j \in 1..Len(s) : (s[j] < idx => j < k) /\ (s[j] > idx => j > k)

\* ---- claims ----

\* C1: the set of indexes free_indexes() yields equals the set of indexes
\* whose entry is Empty, after every sequence of set and free calls.
C1_SetEquality == Running => Range(free_indexes(pool)) = FreeSet(pool)

\* C2: the indexes free_indexes() yields from first_free are strictly
\* increasing, in every reachable state.
C2_Ascending == Ascending(free_indexes(pool))
\* a free() of a Data entry has put its index strictly inside the enumeration
C2_Witness ==
  /\ Running /\ CalledInRange("free") /\ IsData(pre.entries[op.idx])
  /\ LET s == free_indexes(pool)
     IN \E k \in 2..(Len(s) - 1) : s[k] = op.idx

\* C3: first_free is None exactly when no entry is Empty, and otherwise it
\* is the smallest index whose entry is Empty.
C3_HeadIsMin ==
  Running => IF FreeSet(pool) = {} THEN first_free = None
             ELSE first_free = Min(FreeSet(pool))

\* C4: no call panics, whatever the size and the indexes.
C4_NoPanic == panic = NoPanic

\* C5: free(idx) with idx < size returns Some(idx) and leaves entry(idx)
\* Empty, whether it was Data or Empty before.
C5_ReleaseFrees ==
  CalledInRange("free") =>
    /\ panic = NoPanic
    /\ op.ret = op.idx
    /\ IsEmpty(entries[op.idx])

\* C6: from every reachable state and for every index in range, set(idx, p)
\* followed by free(idx) leaves entry(idx) Empty and idx in free_indexes()
\* exactly once, at its sorted position.
C6_RoundTrip ==
  Running =>
    \A idx \in InRangeIdx(pool), data \in Payloads :
      LET r1 == Pool_set(pool, idx, data)
          r2 == Pool_free(r1.pool, idx)
      IN /\ r1.panic = NoPanic
         /\ r2.panic = NoPanic
         /\ IsEmpty(r2.pool.entries[idx])
         /\ SortedPosition(free_indexes(r2.pool), idx)

\* C7: new(size) yields size Empty entries, entry i with prev = i-1 (None
\* for i = 0) and next = i+1 (None for i = size-1), and first_free = Some(0)
\* when size > 0 and None when size = 0.
C7_Construction ==
  Called("new") =>
    LET size == len(entries)
    IN /\ \A i \in DOMAIN entries :
            /\ IsEmpty(entries[i])
            /\ entries[i].prev = (IF i = 0 THEN None ELSE i - 1)
            /\ entries[i].next = (IF i = size - 1 THEN None ELSE i + 1)
       /\ first_free = (IF size > 0 THEN 0 ELSE None)

\* C8: set and free with idx >= size return None and change nothing in the
\* pool: every entry and first_free are as before the call.
C8_OverflowSafety ==
  (CalledPastEnd("set") \/ CalledPastEnd("free")) =>
    /\ op.ret = None
    /\ panic = NoPanic
    /\ pool = pre
\* a call past the end was made on a pool holding both Data and Empty entries
C8_Witness ==
  /\ CalledPastEnd("set")
  /\ \E i \in DOMAIN entries : IsData(entries[i])
  /\ \E i \in DOMAIN entries : IsEmpty(entries[i])

\* C9: from every reachable state and for every index in range, free(idx)
\* twice leaves the pool as free(idx) once does, and both calls return
\* Some(idx).
C9_ReleaseIdempotent ==
  Running =>
    \A idx \in InRangeIdx(pool) :
      LET r1 == Pool_free(pool, idx)
          r2 == Pool_free(r1.pool, idx)
      IN /\ r1.panic = NoPanic /\ r1.ret = idx
         /\ r2.panic = NoPanic /\ r2.ret = idx
         /\ r2.pool = r1.pool

\* C10: set(idx, p) on a Data entry returns Some(idx), replaces that entry's
\* payload by p and leaves first_free and every other entry unchanged.
C10_FillOccupied ==
  (CalledInRange("set") /\ IsData(pre.entries[op.idx])) =>
    /\ op.ret = op.idx
    /\ panic = NoPanic
    /\ first_free = pre.first_free
    /\ IsData(entries[op.idx]) /\ entries[op.idx].inner = op.data
    /\ \A i \in DOMAIN pre.entries : i # op.idx => entries[i] = pre.entries[i]
    /\ DOMAIN entries = DOMAIN pre.entries
\* a Data entry was given a different payload while the free list is not empty
C10_Witness ==
  /\ CalledInRange("set") /\ IsData(pre.entries[op.idx])
  /\ pre.entries[op.idx].inner # op.data
  /\ FreeSet(pool) # {}


\* the ascending sequence of the members of a set of indexes
RECURSIVE SortedSeq(_)
SortedSeq(S) == IF S = {} THEN <<>> ELSE <<Min(S)>> \o SortedSeq(S \ {Min(S)})
Mutating == op.name \in {"set", "free"}

\* C11: set(idx, p) with idx < size returns Some(idx) and leaves entry(idx)
\* Data holding exactly p, whatever the entry was before; a Data entry keeps
\* its payload through every call that is not a set or free of its index.
C11_FillStores ==
  /\ CalledInRange("set") =>
       /\ panic = NoPanic
       /\ op.ret = op.idx
       /\ IsData(entries[op.idx]) /\ entries[op.idx].inner = op.data
  /\ \A i \in DOMAIN pre.entries :
       (IsData(pre.entries[i]) /\ ~(Mutating /\ op.idx = i)) =>
         (i \in DOMAIN entries /\ entries[i] = pre.entries[i])

\* C12: for every size N >= 1, right after new(N) first_free() is Some(0)
\* and free_indexes() yields 0, 1, ..., N-1 in that order.
C12_FreshPool ==
  (Called("new") /\ len(entries) >= 1) =>
    /\ first_free = 0
    /\ free_indexes(pool) = [k \in 1..len(entries) |-> k - 1]
\* a fresh pool of at least two entries, whose enumeration follows a link
C12_Witness == Called("new") /\ len(entries) >= 2 /\ Len(free_indexes(pool)) >= 2

\* C13: for every size N >= 1, after any sequence of in-range set calls on a
\* fresh pool every call has returned, free_indexes() yields the never-filled
\* indexes in ascending order and first_free() is the smallest of them (None
\* when all were filled).
C13_FillsOnly ==
  (phase = "fills" /\ len(entries) >= 1) =>
    LET never == DOMAIN entries \ filled
    IN /\ panic = NoPanic
       /\ free_indexes(pool) = SortedSeq(never)
       /\ first_free = (IF never = {} THEN None ELSE Min(never))

\* C14: for a fresh pool of size N >= 2, after any sequence of in-range set
\* calls followed by any sequence of in-range free calls, free_indexes()
\* yields the indexes whose entry is Empty in ascending order and
\* first_free() is the smallest of them.
C14_FillsThenFrees ==
  (phase \in {"fills", "frees"} /\ len(entries) >= 2) =>
    /\ panic = NoPanic
    /\ free_indexes(pool) = SortedSeq(FreeSet(pool))
    /\ FreeSet(pool) # {} => first_free = Min(FreeSet(pool))
\* after fills, a free() of a Data entry behind the head while another entry
\* is still Data
C14_Witness ==
  /\ phase = "frees" /\ CalledInRange("free") /\ IsData(pre.entries[op.idx])
  /\ pre.first_free # None /\ op.idx > pre.first_free
  /\ \E i \in DOMAIN entries : IsData(entries[i])

Max(S) == CHOOSE x \in S : \A y \in S : x >= y
\* a stored prev/next or first_free that is None or names an Empty entry
NoneOrFree(p, i) == i = None \/ (InVec(p.entries, i) /\ IsEmpty(p.entries[i]))
\* the sequence s without its items equal to idx
Without(s, idx) == SelectSeq(s, LAMBDA x : x # idx)

\* C15: for every Empty entry p on the free list whose next is Some(q), entry
\* q is Empty with prev = Some(p) and p < q, and the Empty entry at
\* first_free has prev = None.
C15_PrevInverseOfNext ==
  Running =>
    /\ \A p \in Range(free_indexes(pool)) :
         LET q == entries[p].next
         IN q # None => /\ InVec(entries, q) /\ IsEmpty(entries[q])
                        /\ entries[q].prev = p
                        /\ p < q
    /\ (InVec(entries, first_free) /\ IsEmpty(entries[first_free]))
         => entries[first_free].prev = None

\* C16: free(idx) on a Data entry with idx greater than first_free, where cur
\* is the last free-list node below idx and succ the next of cur before the
\* call, leaves idx.prev = cur, idx.next = succ, cur.next = idx and, when succ
\* exists, the prev of entry succ equal to idx.
C16_SpliceStep ==
  (CalledInRange("free") /\ IsData(pre.entries[op.idx])
     /\ pre.first_free # None /\ op.idx > pre.first_free) =>
    LET lower == { x \in Range(free_indexes(pre)) : x < op.idx }
    IN /\ panic = NoPanic
       /\ lower # {}
       /\ LET cur == Max(lower)
              succ == pre.entries[cur].next
          IN /\ IsEmpty(entries[op.idx])
             /\ entries[op.idx].prev = cur
             /\ entries[op.idx].next = succ
             /\ entries[cur].next = op.idx
             /\ succ # None => (InVec(entries, succ) /\ entries[succ].prev = op.idx)

\* C17: set(idx, p) on an Empty entry removes idx from the enumeration and
\* changes nothing else in it: the other indexes stay, in the same order,
\* and no index is added.
C17_FillUnlinksOne ==
  (CalledInRange("set") /\ IsEmpty(pre.entries[op.idx])) =>
    /\ panic = NoPanic
    /\ free_indexes(pool) = Without(free_indexes(pre), op.idx)

\* C18: for every size N >= 1, first_free and every prev and next stored in
\* an Empty entry is None or an index below N whose entry is Empty.
C18_NoDangling ==
  (Running /\ len(entries) >= 1) =>
    /\ NoneOrFree(pool, first_free)
    /\ \A i \in FreeSet(pool) :
         NoneOrFree(pool, entries[i].prev) /\ NoneOrFree(pool, entries[i].next)

NoRepeat(s) == \A j, k \in 1..Len(s) : j # k => s[j] # s[k]

\* C19: no Empty entry has next equal to its own index and the next-chain
\* from first_free never visits an index twice; free_indexes() ends after at
\* most N indexes and the iterator's self-loop guard is never taken.
C19_NoCycle ==
  /\ \A i \in FreeSet(pool) : entries[i].next # i
  /\ EnumTerminates(pool)
  /\ NoRepeat(free_indexes(pool))
  /\ ~LoopGuardTaken(pool)
  /\ panic # Hang
\* free_indexes() was collected over a list of two or more nodes beside a
\* Data entry, after set and free calls in no particular shape
C19_Witness ==
  /\ Called("free_indexes") /\ Len(op.seq) >= 2 /\ phase = "mixed"
  /\ \E i \in DOMAIN entries : IsData(entries[i])

\* C20: set(idx, p) and free(idx) leave the tag and payload of every entry
\* other than idx and the number of entries unchanged; a tag changes only
\* from Empty to Data by a set of that index and from Data to Empty by a
\* free of that index.
C20_SlotFrame ==
  /\ DOMAIN entries = DOMAIN pre.entries
  /\ \A i \in DOMAIN pre.entries :
       LET same == entries[i].tag = pre.entries[i].tag
                   /\ entries[i].inner = pre.entries[i].inner
       IN /\ ~(Mutating /\ op.idx = i) => same
          /\ entries[i].tag # pre.entries[i].tag =>
               \/ op.name = "set" /\ op.idx = i
                    /\ IsEmpty(pre.entries[i]) /\ IsData(entries[i])
               \/ op.name = "free" /\ op.idx = i
                    /\ IsData(pre.entries[i]) /\ IsEmpty(entries[i])
\* a free() turned a Data entry Empty while another entry holds a payload
C20_Witness ==
  /\ CalledInRange("free") /\ IsData(pre.entries[op.idx]) /\ IsEmpty(entries[op.idx])
  /\ \E i \in DOMAIN entries : IsData(entries[i]) /\ entries[i].inner # <<>>
====
